---- MODULE Spec2Model ----
(***************************************************************************)
(* State machine of the sticky-notes board, src/src/app/page.tsx.          *)
(*                                                                         *)
(* The component's React state (notes, maxZIndex, dragState, showTutorial) *)
(* and the localStorage record under STORAGE_KEY are the variables.  One   *)
(* action stands for one DOM event: the handlers React runs for it with    *)
(* the closures of the last render, and the render that commits their      *)
(* batched state updates.  The passive effect that saves the notes runs    *)
(* after that render and before the next event; it is the step SaveEffect, *)
(* enabled exactly while pc = "effect", in which no event is enabled.      *)
(***************************************************************************)
EXTENDS Integers, Sequences, FiniteSets, TLC

VARIABLES
    notes,         \* useState<Note[]>, line 45
    maxZIndex,     \* useState<number>, line 46
    dragState,     \* useState<DragState>, line 47
    showTutorial,  \* useState(true), line 55
    storage,       \* localStorage[STORAGE_KEY]
    pc,            \* "mount" | "effect" | "ready" | "crashed"
    mountEffects,  \* mount effects still to run, and "rerender" once the load set state
    lastEvent      \* history: the DOM event handled last

vars == <<notes, maxZIndex, dragState, showTutorial, storage, pc, mountEffects,
          lastEvent>>

-----------------------------------------------------------------------------
(* Bounds of the exploration *)

MaxNotes == 2
MaxZ == 4

\* pointer positions (clientX, clientY) the move events carry
Pointers == {<<0, 0>>, <<1, 2>>}
\* pointer positions at which a drag starts
DownPointers == {<<1, 2>>}
\* texts typed into a note
Texts == {"", "a"}
\* the window of the canvas the exploration keeps notes in
XRange == 49..50
YRange == 78..80

-----------------------------------------------------------------------------
(* Constants of the program *)

COLOR_KEYS == <<"yellow", "blue", "green", "pink", "orange", "purple">>
DEFAULT_WIDTH == 220
DEFAULT_HEIGHT == 220

\* the outcomes of Math.floor(Math.random() * COLOR_KEYS.length) explored
ColorDraws == {1, Len(COLOR_KEYS)}
\* the outcomes of Math.random() * 100 explored, for x and y alike
JitterDraws == {0}

-----------------------------------------------------------------------------
(* JavaScript values that are not ordinary numbers.  Identifiers are the   *)
(* positive integers; stack orders and coordinates are integers.           *)

NULL == 0          \* dragState.noteId: null
Undef == -1        \* a property the object does not have
JNull == -2        \* JSON null
NaN == -3          \* the number NaN
NonNum == -4       \* a string that is not a number, e.g. "x"

\* ToNumber, as Math.max applies it to its arguments
ToNumber(v) == IF v \in {Undef, NaN, NonNum} THEN NaN
               ELSE IF v = JNull THEN 0 ELSE v

\* a || 1
OrOne(v) == IF v \in {Undef, JNull, NaN, 0} THEN 1 ELSE v

MathMax(a, b) ==
    LET x == ToNumber(a)
        y == ToNumber(b)
    IN  IF x = NaN \/ y = NaN THEN NaN ELSE IF x >= y THEN x ELSE y

\* a + 1 on numbers
PlusOne(a) == IF a = NaN THEN NaN ELSE a + 1

\* a === b, where b is a number
StrictEq(a, b) == a # NaN /\ b # NaN /\ a = b

\* a > b on values that may not be numbers
Greater(a, b) == ToNumber(a) # NaN /\ ToNumber(b) # NaN /\ ToNumber(a) > ToNumber(b)

-----------------------------------------------------------------------------
(* Notes and sequences of notes *)

NoteIds(ns) == {ns[i].id : i \in DOMAIN ns}

\* index of the note notes.find(n => n.id === id) returns, 0 when it returns undefined
FindIndex(ns, id) ==
    IF \E i \in DOMAIN ns : ns[i].id = id
    THEN CHOOSE i \in DOMAIN ns :
            /\ ns[i].id = id
            /\ \A j \in DOMAIN ns : ns[j].id = id => i <= j
    ELSE 0

\* prev.map((n) => (n.id === id ? { ...n, content } : n))
SetContent(ns, id, content) ==
    [i \in DOMAIN ns |-> IF ns[i].id = id THEN [ns[i] EXCEPT !.content = content] ELSE ns[i]]

\* prev.map((n) => (n.id === id ? { ...n, color } : n))
SetColor(ns, id, color) ==
    [i \in DOMAIN ns |-> IF ns[i].id = id THEN [ns[i] EXCEPT !.color = color] ELSE ns[i]]

\* prev.map((n) => (n.id === id ? { ...n, zIndex: newZ } : n))
SetZIndex(ns, id, newZ) ==
    [i \in DOMAIN ns |-> IF ns[i].id = id THEN [ns[i] EXCEPT !.zIndex = newZ] ELSE ns[i]]

\* a map that moves every note, without the test of the id
SetPositionAll(ns, id, x, y) ==
    [i \in DOMAIN ns |-> [ns[i] EXCEPT !.x = x, !.y = y]]

\* prevNotes.map((n) => n.id === noteId ? { ...n, x: ..., y: ... } : n)
SetPosition(ns, id, x, y) ==
    [i \in DOMAIN ns |-> IF ns[i].id = id THEN [ns[i] EXCEPT !.x = x, !.y = y] ELSE ns[i]]

\* prev.filter((n) => n.id !== id)
RemoveNote(ns, id) == SelectSeq(ns, LAMBDA n : n.id # id)

-----------------------------------------------------------------------------
(* The persisted record: JSON.stringify(notes) and JSON.parse *)

\* a number as JSON.stringify writes it: NaN becomes null
SerNum(v) == IF v = NaN THEN JNull ELSE v

\* one note as JSON text: the values of its properties in insertion order
StringifyNote(n) ==
    <<n.id, SerNum(n.x), SerNum(n.y), n.content, n.color, SerNum(n.zIndex),
      n.width, n.height>>

Stringify(ns) == [i \in DOMAIN ns |-> StringifyNote(ns[i])]

\* a parse that reads the two coordinates in the wrong order
ParseNoteSwapped(t) ==
    [id |-> t[1], x |-> t[3], y |-> t[2], content |-> t[4], color |-> t[5],
     zIndex |-> t[6], width |-> t[7], height |-> t[8]]

ParseNote(t) ==
    [id |-> t[1], x |-> t[2], y |-> t[3], content |-> t[4], color |-> t[5],
     zIndex |-> t[6], width |-> t[7], height |-> t[8]]

Parse(val) == [i \in DOMAIN val |-> ParseNote(val[i])]

Absent == [kind |-> "absent", val |-> <<>>]
ArrayRecord(val) == [kind |-> "array", val |-> val]

-----------------------------------------------------------------------------
(* Initial state: the first render, before any effect has run *)

InitialDragState ==
    [isDragging |-> FALSE, noteId |-> NULL, startX |-> 0, startY |-> 0,
     initialNoteX |-> 0, initialNoteY |-> 0]

\* what the store can hold when the page is first opened: nothing, an empty
\* string, text that JSON.parse rejects, JSON that is not an array, or a record
\* on which getItem throws
FirstRecords ==
    {[kind |-> k, val |-> <<>>] :
        k \in {"absent", "empty", "malformed", "nonarray", "unreadable"}}

Mounted(s) ==
    /\ notes = <<>>
    /\ maxZIndex = 1
    /\ dragState = InitialDragState
    /\ showTutorial = TRUE
    /\ storage = s
    /\ pc = "mount"
    /\ mountEffects = {"load", "save"}

Init ==
    /\ \E s \in FirstRecords : Mounted(s)
    /\ lastEvent = "none"

-----------------------------------------------------------------------------
(* Effects *)

\* parsed.reduce((max, note) => Math.max(max, note.zIndex || 1), 1)
RECURSIVE ReduceMaxZ(_, _)
ReduceMaxZ(ns, max) ==
    IF ns = <<>> THEN max
    ELSE ReduceMaxZ(Tail(ns), MathMax(max, OrOne(Head(ns).zIndex)))

\* the state the load effect sets from the record it reads
LoadedNotes(s) == Parse(s.val)
LoadedMaxZIndex(s) == PlusOne(ReduceMaxZ(Parse(s.val), 1))

\* a load effect without its Array.isArray test
LoadsUnchecked(s) == s.kind \in {"array", "nonarray"}

\* whether the load effect reaches setNotes at line 70: getItem returned text,
\* JSON.parse accepted it and the value is an array, lines 66-69; a throw of
\* getItem or JSON.parse is caught at line 76
Loads(s) == s.kind = "array"

\* the load effect, lines 64-80
LoadEffect ==
    /\ pc = "mount"
    /\ "load" \in mountEffects
    /\ IF Loads(storage)
       THEN /\ notes' = LoadedNotes(storage)
            /\ maxZIndex' = LoadedMaxZIndex(storage)
            /\ showTutorial' = IF Len(storage.val) > 0 THEN FALSE ELSE showTutorial
            /\ mountEffects' = (mountEffects \ {"load"}) \cup {"rerender"}
       ELSE /\ UNCHANGED <<notes, maxZIndex, showTutorial>>
            /\ mountEffects' = mountEffects \ {"load"}
    /\ pc' = IF "save" \in mountEffects THEN "mount"
             ELSE IF Loads(storage) THEN "effect" ELSE "ready"
    /\ UNCHANGED <<dragState, storage, lastEvent>>

\* a save effect without its guard
SaveWritesAlways(ns, tutorial) == TRUE

\* a save effect that skips an empty collection
SaveWritesNonEmpty(ns, tutorial) == Len(ns) > 0

\* the record the save effect leaves, lines 84-86, run with the notes and the
\* showTutorial of the render that scheduled it
SaveWrites(ns, tutorial) == Len(ns) > 0 \/ ~tutorial
SavedRecord(ns, tutorial, s) ==
    IF SaveWrites(ns, tutorial) THEN ArrayRecord(Stringify(ns)) ELSE s

\* the save effect of the first render: its closure holds the initial state
MountSaveEffect ==
    /\ pc = "mount"
    /\ "save" \in mountEffects
    /\ storage' = SavedRecord(<<>>, TRUE, storage)
    /\ mountEffects' = mountEffects \ {"save"}
    /\ pc' = IF "load" \in mountEffects THEN "mount"
             ELSE IF "rerender" \in mountEffects THEN "effect" ELSE "ready"
    /\ UNCHANGED <<notes, maxZIndex, dragState, showTutorial, lastEvent>>

\* the save effect of a later render, lines 83-87
SaveEffect ==
    /\ pc = "effect"
    /\ storage' = SavedRecord(notes, showTutorial, storage)
    /\ pc' = "ready"
    /\ UNCHANGED <<notes, maxZIndex, dragState, showTutorial, mountEffects, lastEvent>>

-----------------------------------------------------------------------------
(* Event handlers *)

\* identifiers some note, the drag state or the persisted record holds
IdsInUse ==
    NoteIds(notes) \cup {dragState.noteId} \cup {storage.val[i][1] : i \in DOMAIN storage.val}

\* crypto.randomUUID(): an identifier nothing holds; which one is immaterial, and
\* the least positive integer not in use stands for it
RandomUUID == CHOOSE id \in 1..(Cardinality(IdsInUse) + 1) :
                 /\ id \notin IdsInUse
                 /\ \A other \in 1..(id - 1) : other \in IdsInUse

\* a created note that takes the current maximum instead of exceeding it
NewNoteAtMax(id, x, y, color, z) ==
    [id |-> id, x |-> x, y |-> y, content |-> "", color |-> color,
     zIndex |-> z - 1, width |-> DEFAULT_WIDTH, height |-> DEFAULT_HEIGHT]

\* the note addNote builds, lines 96-107
NewNote(id, x, y, color, z) ==
    [id |-> id, x |-> x, y |-> y, content |-> "", color |-> color, zIndex |-> z,
     width |-> DEFAULT_WIDTH, height |-> DEFAULT_HEIGHT]

\* addNote, lines 92-114
AddNote(jx, jy, c) ==
    /\ pc = "ready"
    /\ Len(notes) < MaxNotes
    /\ maxZIndex = NaN \/ maxZIndex < MaxZ
    /\ LET newZIndex == PlusOne(maxZIndex)
       IN  /\ maxZIndex' = newZIndex
           /\ notes' = Append(notes, NewNote(RandomUUID, 50 + jx, 80 + jy, COLOR_KEYS[c], newZIndex))
    /\ showTutorial' = FALSE
    /\ pc' = "effect"
    /\ lastEvent' = "addNote"
    /\ UNCHANGED <<dragState, storage, mountEffects>>

\* updateNoteContent, lines 116-118
UpdateNoteContent(id, content) ==
    /\ pc = "ready"
    /\ notes' = SetContent(notes, id, content)
    /\ pc' = "effect"
    /\ lastEvent' = "updateNoteContent"
    /\ UNCHANGED <<maxZIndex, dragState, showTutorial, storage, mountEffects>>

\* updateNoteColor, lines 120-122
UpdateNoteColor(id, color) ==
    /\ pc = "ready"
    /\ notes' = SetColor(notes, id, color)
    /\ pc' = "effect"
    /\ lastEvent' = "updateNoteColor"
    /\ UNCHANGED <<maxZIndex, dragState, showTutorial, storage, mountEffects>>

\* deleteNote, lines 124-126
DeleteNote(id) ==
    /\ pc = "ready"
    /\ notes' = RemoveNote(notes, id)
    /\ pc' = "effect"
    /\ lastEvent' = "deleteNote"
    /\ UNCHANGED <<maxZIndex, dragState, showTutorial, storage, mountEffects>>

\* a bringToFront without its early return
AlreadyAtFrontNever(id, cNotes, cMax) == FALSE

\* whether bringToFront(id) returns at line 130, with the notes and the maxZIndex
\* of the render its closure was made in
AlreadyAtFront(id, cNotes, cMax) ==
    LET i == FindIndex(cNotes, id)
    IN  i # 0 /\ StrictEq(cNotes[i].zIndex, cMax)

\* a bringToFront that reuses the current maximum instead of exceeding it
BringToFrontNotesReuse(id, cNotes, cMax, prev) ==
    IF AlreadyAtFront(id, cNotes, cMax) THEN prev ELSE SetZIndex(prev, id, cMax)

\* the notes after bringToFront's setNotes, lines 132-134, applied to the notes the
\* updates queued before it have produced
BringToFrontNotes(id, cNotes, cMax, prev) ==
    IF AlreadyAtFront(id, cNotes, cMax) THEN prev
    ELSE SetZIndex(prev, id, PlusOne(cMax))

\* a bringToFront that counts up from the queued maxZIndex, not from its closure's
BringToFrontMaxQueued(id, cNotes, cMax, prevMax) ==
    IF AlreadyAtFront(id, cNotes, cMax) THEN prevMax ELSE PlusOne(prevMax)

\* a bringToFront that raises the note but forgets setMaxZIndex
BringToFrontMaxKept(id, cNotes, cMax, prevMax) == prevMax

\* maxZIndex after bringToFront's setMaxZIndex, lines 132-133
BringToFrontMax(id, cNotes, cMax, prevMax) ==
    IF AlreadyAtFront(id, cNotes, cMax) THEN prevMax ELSE PlusOne(cMax)

\* the exploration stops raising maxZIndex at MaxZ
MayRaise(id) ==
    AlreadyAtFront(id, notes, maxZIndex) \/ maxZIndex = NaN \/ maxZIndex < MaxZ

\* mousedown or touchstart on a note outside its handle: bringToFront, lines 128-135, 308-309
BringToFront(id) ==
    /\ pc = "ready"
    /\ MayRaise(id)
    /\ notes' = BringToFrontNotes(id, notes, maxZIndex, notes)
    /\ maxZIndex' = BringToFrontMax(id, notes, maxZIndex, maxZIndex)
    /\ pc' = IF AlreadyAtFront(id, notes, maxZIndex) THEN "ready" ELSE "effect"
    /\ lastEvent' = "bringToFront"
    /\ UNCHANGED <<dragState, showTutorial, storage, mountEffects>>

\* the drag state handleDragStart sets, lines 152-153 and 166-173
DragStartState(id, p, cNotes, prev) ==
    LET i == FindIndex(cNotes, id)
    IN  IF i = 0 THEN prev
        ELSE [isDragging |-> TRUE, noteId |-> id, startX |-> p[1], startY |-> p[2],
              initialNoteX |-> cNotes[i].x, initialNoteY |-> cNotes[i].y]

\* the notes after handleDragStart, lines 152-155
DragStartNotes(id, cNotes, cMax, prev) ==
    IF FindIndex(cNotes, id) = 0 THEN prev ELSE BringToFrontNotes(id, cNotes, cMax, prev)

\* maxZIndex after handleDragStart, lines 152-155
DragStartMax(id, cNotes, cMax, prevMax) ==
    IF FindIndex(cNotes, id) = 0 THEN prevMax ELSE BringToFrontMax(id, cNotes, cMax, prevMax)

\* mousedown or touchstart on a note's handle: handleDragStart, lines 146-174 and
\* 314-315, then, as the event bubbles to the note, bringToFront, lines 308-309;
\* both run with the closures of the same render and their updates are batched
DragStart(id, p) ==
    /\ pc = "ready"
    /\ MayRaise(id)
    /\ dragState' = DragStartState(id, p, notes, dragState)
    /\ notes' = BringToFrontNotes(id, notes, maxZIndex,
                                  DragStartNotes(id, notes, maxZIndex, notes))
    /\ maxZIndex' = BringToFrontMax(id, notes, maxZIndex,
                                    DragStartMax(id, notes, maxZIndex, maxZIndex))
    /\ pc' = IF AlreadyAtFront(id, notes, maxZIndex) THEN "ready" ELSE "effect"
    /\ lastEvent' = "dragStart"
    /\ UNCHANGED <<showTutorial, storage, mountEffects>>

\* the position handleMouseMove gives the dragged note, lines 190-196
MovedX(d, p) == d.initialNoteX + (p[1] - d.startX)
MovedY(d, p) == d.initialNoteY + (p[2] - d.startY)

\* a move that adds the delta to the note's current position
MovedNotesCumulative(ns, d, p) ==
    [i \in DOMAIN ns |->
        IF ns[i].id = d.noteId
        THEN [ns[i] EXCEPT !.x = ns[i].x + (p[1] - d.startX),
                           !.y = ns[i].y + (p[2] - d.startY)]
        ELSE ns[i]]

\* the notes after handleMouseMove, lines 193-199
MovedNotes(ns, d, p) == SetPosition(ns, d.noteId, MovedX(d, p), MovedY(d, p))

\* a move handler that stays attached and unguarded after the release
TracksAlways(d) == TRUE

\* whether a move reaches setNotes at line 193: the listener is attached only
\* while dragState.isDragging, lines 211-217, and the handler returns at line 178
\* unless isDragging and noteId are set
Tracks(d) == d.isDragging /\ d.noteId # NULL

\* mousemove or touchmove on the window: handleMouseMove, lines 177-202, which
\* listens only while dragState.isDragging, lines 211-217
PointerMove(p) ==
    /\ pc = "ready"
    /\ IF Tracks(dragState)
       THEN /\ MovedX(dragState, p) \in XRange
            /\ MovedY(dragState, p) \in YRange
            /\ notes' = MovedNotes(notes, dragState, p)
            /\ pc' = "effect"
       ELSE UNCHANGED <<notes, pc>>
    /\ lastEvent' = "pointerMove"
    /\ UNCHANGED <<maxZIndex, dragState, showTutorial, storage, mountEffects>>

\* the drag state after handleMouseUp, lines 204-208
ReleasedState(d) ==
    IF d.isDragging THEN [d EXCEPT !.isDragging = FALSE, !.noteId = NULL] ELSE d

\* mouseup or touchend on the window: handleMouseUp, which listens only while
\* dragState.isDragging, lines 211-217
PointerUp ==
    /\ pc = "ready"
    /\ dragState' = ReleasedState(dragState)
    /\ lastEvent' = "pointerUp"
    /\ UNCHANGED <<notes, maxZIndex, showTutorial, storage, pc, mountEffects>>

\* the handlers the listener effect registers for a cancelled pointer, lines
\* 211-230: none (mousemove, mouseup, touchmove and touchend are the only ones)
CancelledState(d) == d

\* touchcancel or pointercancel on the window
PointerCancel ==
    /\ pc = "ready"
    /\ dragState' = CancelledState(dragState)
    /\ lastEvent' = "pointerCancel"
    /\ UNCHANGED <<notes, maxZIndex, showTutorial, storage, pc, mountEffects>>

\* the record clearAll leaves, line 140
ClearedRecord(s) == Absent

\* click on Clear Board, rendered while notes.length > 0, line 248: clearAll,
\* lines 137-142, with the answer window.confirm returns
ClearAll(confirmed) ==
    /\ pc = "ready"
    /\ Len(notes) > 0
    /\ IF confirmed
       THEN /\ notes' = <<>>
            /\ storage' = ClearedRecord(storage)
            /\ pc' = "effect"
            /\ lastEvent' = "clearAll"
       ELSE /\ UNCHANGED <<notes, storage, pc>>
            /\ lastEvent' = "clearAllDeclined"
    /\ UNCHANGED <<maxZIndex, dragState, showTutorial, mountEffects>>

\* the page is loaded again: the component is constructed anew, lines 45-55, and
\* the store keeps its record
Reload ==
    /\ pc \in {"ready", "crashed"}
    /\ notes' = <<>>
    /\ maxZIndex' = 1
    /\ dragState' = InitialDragState
    /\ showTutorial' = TRUE
    /\ pc' = "mount"
    /\ mountEffects' = {"load", "save"}
    /\ lastEvent' = "none"
    /\ UNCHANGED storage

-----------------------------------------------------------------------------
(* The board as the user drives it: every event names a rendered note *)

Events ==
    \/ \E jx \in JitterDraws, jy \in JitterDraws, c \in ColorDraws : AddNote(jx, jy, c)
    \/ \E id \in NoteIds(notes), t \in Texts : UpdateNoteContent(id, t)
    \/ \E id \in NoteIds(notes), c \in ColorDraws : UpdateNoteColor(id, COLOR_KEYS[c])
    \/ \E id \in NoteIds(notes) : DeleteNote(id)
    \/ \E id \in NoteIds(notes) : BringToFront(id)
    \/ \E id \in NoteIds(notes), p \in DownPointers : DragStart(id, p)
    \/ \E p \in Pointers : PointerMove(p)
    \/ PointerUp
    \/ PointerCancel
    \/ \E confirmed \in BOOLEAN : ClearAll(confirmed)

Next ==
    \/ LoadEffect
    \/ MountSaveEffect
    \/ SaveEffect
    \/ Events
    \/ Reload

Spec == Init /\ [][Next]_vars

-----------------------------------------------------------------------------
(* A store whose writes can fail: localStorage.setItem throws when the quota  *)
(* is exceeded or the storage is disabled.                                    *)

\* where the component is after setItem has thrown inside the save effect, lines
\* 83-87: nothing there catches it, the error leaves the effect and React
\* unmounts the component
AfterFailedWrite == "crashed"

\* the save effect of a later render when setItem throws
SaveEffectThrows ==
    /\ pc = "effect"
    /\ SaveWrites(notes, showTutorial)
    /\ pc' = AfterFailedWrite
    /\ UNCHANGED <<notes, maxZIndex, dragState, showTutorial, storage, mountEffects, lastEvent>>

NextQuota == Next \/ SaveEffectThrows

SpecQuota == Init /\ [][NextQuota]_vars

-----------------------------------------------------------------------------
(* Events that name a note which is no longer in the collection *)

StaleIds == (1..(MaxNotes + 1)) \ NoteIds(notes)

StaleUpdateNoteContent == \E id \in StaleIds, t \in Texts : UpdateNoteContent(id, t)
StaleUpdateNoteColor == \E id \in StaleIds, c \in ColorDraws : UpdateNoteColor(id, COLOR_KEYS[c])
StaleDeleteNote == \E id \in StaleIds : DeleteNote(id)
StaleBringToFront == \E id \in StaleIds : BringToFront(id)
StaleDragStart == \E id \in StaleIds, p \in DownPointers : DragStart(id, p)

NextStale ==
    \/ Next
    \/ StaleUpdateNoteContent
    \/ StaleUpdateNoteColor
    \/ StaleDeleteNote
    \/ StaleBringToFront
    \/ StaleDragStart

SpecStale == Init /\ [][NextStale]_vars

-----------------------------------------------------------------------------
(* A store that holds an array this program did not write: its notes may lack *)
(* a zIndex or carry one that is not a number.                                *)

ForeignZIndexes == {Undef, 0, 3, NonNum}

ForeignRecords ==
    {ArrayRecord(<<StringifyNote(NewNote(1, 50, 80, COLOR_KEYS[1], z))>>) : z \in ForeignZIndexes}

InitForeign ==
    /\ \E s \in ForeignRecords : Mounted(s)
    /\ lastEvent = "none"

SpecForeign == InitForeign /\ [][Next]_vars

-----------------------------------------------------------------------------
(* Properties *)

NoteWithId(id) == notes[FindIndex(notes, id)]

\* the persisted record is the full snapshot of the collection
Persisted == storage = ArrayRecord(Stringify(notes))

\* C1: after a confirmed clearAll, once the effects it triggered have run, the
\* collection is empty and the record under the storage key is absent, not an
\* empty-array record.
C1_ClearAllLeavesNoRecord ==
    (lastEvent = "clearAll" /\ pc = "ready") => (notes = <<>> /\ storage.kind = "absent")

\* C2: in every state reached after a startup load of any array payload and any
\* sequence of operations, maxStackOrder is greater than or equal to the
\* stackOrder of every note in the collection, and every bringToFront that is not
\* a no-op gives the note a value strictly greater than the previous
\* maxStackOrder, which becomes the new maxStackOrder.
C2_MaxBoundsEveryStackOrder ==
    /\ [](pc # "mount" =>
            \A i \in DOMAIN notes :
                \/ Greater(maxZIndex, notes[i].zIndex)
                \/ StrictEq(ToNumber(notes[i].zIndex), maxZIndex))
    /\ [][\A id \in NoteIds(notes) :
            (/\ BringToFront(id) \/ \E p \in DownPointers : DragStart(id, p)
             /\ ~AlreadyAtFront(id, notes, maxZIndex))
            => /\ Greater(NoteWithId(id)'.zIndex, maxZIndex)
               /\ maxZIndex' = NoteWithId(id)'.zIndex]_vars

\* C3: a save whose write fails is caught: the application never enters a crashed
\* state, so further operations stay possible.
C3_FailedSaveIsCaught == pc # "crashed"

\* C4: startup alone never changes the record the store held when the page was
\* opened: neither the mount effects, in either order, nor the save effect of the
\* render that applies the loaded state write anything else than that record.
C4_StartupKeepsRecord ==
    [][(pc = "mount" \/ (pc = "effect" /\ lastEvent = "none")) => storage' = storage]_vars

\* a startup that found a non-empty array has completed
C4_Witness ==
    /\ pc = "ready"
    /\ lastEvent = "none"
    /\ storage.kind = "array"
    /\ Len(storage.val) > 0
    /\ Len(notes) = Len(storage.val)

MutatingEvents ==
    {"addNote", "updateNoteContent", "updateNoteColor", "bringToFront", "dragStart", "deleteNote"}

\* C5: after every mutating operation other than clearAll, and after each
\* pointer-move of a drag, once its effects have run the persisted record is the
\* full snapshot of the collection; deleting the only note leaves an empty-array
\* record.
C5_MutationsArePersisted ==
    (/\ pc = "ready"
     /\ \/ lastEvent \in MutatingEvents
        \/ lastEvent = "pointerMove" /\ dragState.isDragging)
    => Persisted

\* the only note has been deleted and the effect has run
C5_Witness ==
    /\ pc = "ready"
    /\ lastEvent = "deleteNote"
    /\ notes = <<>>
    /\ storage = ArrayRecord(<<>>)

\* C6: a drag start records the pointer and the note's position as anchors, and
\* every pointer-move of the drag puts the note at anchor position plus
\* (pointer - anchor pointer), whatever its position before the move, and keeps
\* the anchors.
C6_MoveIsAbsolute ==
    [][/\ \A id \in NoteIds(notes), p \in DownPointers :
            (lastEvent' = "dragStart" /\ DragStart(id, p)) =>
                /\ dragState'.startX = p[1]
                /\ dragState'.startY = p[2]
                /\ dragState'.initialNoteX = NoteWithId(id).x
                /\ dragState'.initialNoteY = NoteWithId(id).y
       /\ \A p \in Pointers :
            (/\ lastEvent' = "pointerMove"
             /\ dragState.isDragging
             /\ dragState.noteId \in NoteIds(notes)
             /\ PointerMove(p))
            => /\ dragState' = dragState
               /\ NoteWithId(dragState.noteId)'.x = dragState.initialNoteX + (p[1] - dragState.startX)
               /\ NoteWithId(dragState.noteId)'.y = dragState.initialNoteY + (p[2] - dragState.startY)
      ]_vars

\* a move of a drag has put the note away from its anchor position
C6_Witness ==
    /\ lastEvent = "pointerMove"
    /\ dragState.isDragging
    /\ dragState.noteId \in NoteIds(notes)
    /\ NoteWithId(dragState.noteId).x # dragState.initialNoteX
    /\ NoteWithId(dragState.noteId).y # dragState.initialNoteY

\* C7: right after a pointer-down on the handle of a note, before any other
\* event, that note's stackOrder is strictly greater than the stackOrder of every
\* other note.
C7_DragStartLeavesNoteOnTop ==
    lastEvent = "dragStart" =>
        /\ dragState.noteId \in NoteIds(notes)
        /\ \A i \in DOMAIN notes :
              notes[i].id # dragState.noteId =>
                  Greater(NoteWithId(dragState.noteId).zIndex, notes[i].zIndex)

\* A then B were created and the drag of A has just started
C7_Witness ==
    /\ lastEvent = "dragStart"
    /\ Len(notes) = 2
    /\ dragState.noteId = notes[1].id
    /\ notes[1].zIndex > notes[2].zIndex

\* C8: while the session is Dragging its target note is in the collection.
C8_DraggedNoteExists ==
    dragState.isDragging => dragState.noteId \in NoteIds(notes)

\* C9: after a pointer-up, a touch-end or a pointer-cancel the session is Idle
\* with no target note.
C9_ReleaseEndsSession ==
    lastEvent \in {"pointerUp", "pointerCancel"} =>
        (~dragState.isDragging /\ dragState.noteId = NULL)

\* C10: an operation that names a note not in the collection, and a pointer-move
\* whose target is not in the collection, leaves the notes, maxStackOrder and the
\* drag session unchanged.
C10_UnknownNoteIsNoOp ==
    [][(\/ StaleUpdateNoteContent
        \/ StaleUpdateNoteColor
        \/ StaleDeleteNote
        \/ StaleBringToFront
        \/ StaleDragStart
        \/ \E p \in Pointers :
              /\ PointerMove(p)
              /\ dragState.isDragging
              /\ dragState.noteId \notin NoteIds(notes))
       => UNCHANGED <<notes, maxZIndex, dragState>>]_vars

\* C11: in every state where the page takes events, also right after a startup
\* load, calling bringToFront twice in a row on a note of the collection gives
\* the same notes and the same maxStackOrder as calling it once: the second call,
\* made with the render the first call produced, changes nothing.
C11_BringToFrontTwiceIsIdempotent ==
    pc = "ready" =>
        \A id \in NoteIds(notes) :
            LET once == BringToFrontNotes(id, notes, maxZIndex, notes)
                onceMax == BringToFrontMax(id, notes, maxZIndex, maxZIndex)
            IN  /\ BringToFrontNotes(id, once, onceMax, once) = once
                /\ BringToFrontMax(id, once, onceMax, onceMax) = onceMax

\* right after a startup load of two notes, where the first call on the lower
\* note raises it
C11_Witness ==
    /\ pc = "ready"
    /\ lastEvent = "none"
    /\ Len(notes) = 2
    /\ \E i \in DOMAIN notes :
          /\ ~AlreadyAtFront(notes[i].id, notes, maxZIndex)
          /\ \E j \in DOMAIN notes : notes[j].zIndex > notes[i].zIndex

C13_UnusableRecordIsAbsent ==
    (lastEvent = "none" /\ storage.kind \in {"malformed", "nonarray", "unreadable"}) =>
        /\ notes = <<>>
        /\ maxZIndex = 1
        /\ showTutorial
        /\ pc # "crashed"

\* the startup has finished on a record that is not an array
C13_Witness ==
    /\ pc = "ready"
    /\ lastEvent = "none"
    /\ storage.kind = "nonarray"
    /\ mountEffects = {}

\* C14: parsing the text JSON.stringify makes of the collection gives the
\* collection back, note by note in the same order and field by field; and when
\* a startup has loaded an array record, the collection is what that record
\* parses to and saving it again would write the same record.
C14_SaveThenLoadRoundTrips ==
    /\ Parse(Stringify(notes)) = notes
    /\ (pc = "ready" /\ lastEvent = "none" /\ storage.kind = "array") =>
          /\ notes = Parse(storage.val)
          /\ Stringify(notes) = storage.val

\* a startup has loaded two notes, one of them with typed content and a raised
\* stackOrder
C14_Witness ==
    /\ pc = "ready"
    /\ lastEvent = "none"
    /\ storage.kind = "array"
    /\ Len(notes) = 2
    /\ notes[1].content # ""
    /\ notes[1].zIndex > notes[2].zIndex
    /\ notes[1].color # notes[2].color

\* C15: a pointer-move or touch-move received while the drag session is Idle,
\* before any drag and after every release, changes no note, neither
\* maxStackOrder nor the drag session, and starts no render or save; while the
\* session is Idle no step changes the position of a note that stays in the
\* collection, and only a pointer-down on a handle ends Idle.
C15_IdleMoveChangesNothing ==
    [][~dragState.isDragging =>
          /\ \A p \in Pointers :
                (lastEvent' = "pointerMove" /\ PointerMove(p)) =>
                    UNCHANGED <<notes, maxZIndex, dragState, storage, pc>>
          /\ \A id \in NoteIds(notes) \cap NoteIds(notes') :
                /\ NoteWithId(id)'.x = NoteWithId(id).x
                /\ NoteWithId(id)'.y = NoteWithId(id).y
          /\ dragState'.isDragging => lastEvent' = "dragStart"]_vars

\* a move arrives after a drag of a note that is still in the collection was
\* released
C15_Witness ==
    /\ lastEvent = "pointerMove"
    /\ ~dragState.isDragging
    /\ dragState.noteId = NULL
    /\ dragState.startX # 0
    /\ Len(notes) > 0

\* C16: any two notes of the collection have different stackOrder values, and
\* right after a createNote, a bringToFront or a pointer-down on a handle exactly
\* one note holds maxStackOrder, every other note lies strictly below it, and
\* that note is the created one, respectively the drag target.
C16_StackOrdersAreDistinct ==
    /\ \A i, j \in DOMAIN notes : i # j => notes[i].zIndex # notes[j].zIndex
    /\ lastEvent \in {"addNote", "bringToFront", "dragStart"} =>
          \E i \in DOMAIN notes :
              /\ notes[i].zIndex = maxZIndex
              /\ \A j \in DOMAIN notes : j # i => notes[j].zIndex < notes[i].zIndex
              /\ lastEvent = "addNote" => i = Len(notes)
              /\ lastEvent = "dragStart" => notes[i].id = dragState.noteId

\* the older of two notes was brought to front and is the topmost one
C16_Witness ==
    /\ lastEvent = "bringToFront"
    /\ pc = "ready"
    /\ Len(notes) = 2
    /\ notes[1].zIndex = maxZIndex
    /\ notes[2].zIndex < notes[1].zIndex

\* C17: within a session (every step but a reload and the load effect of a
\* startup) maxStackOrder never decreases: createNote raises it by exactly one,
\* so does a bringToFront or a pointer-down on a handle whose note is not already
\* at the front, and these leave it unchanged when the note is at the front;
\* deleteNote, clearAll (confirmed or declined), updateContent, updateColor,
\* pointer-move, pointer-up and the save effect leave it unchanged.
C17_MaxStackOrderOnlyGrows ==
    [][/\ pc = "effect" => maxZIndex' = maxZIndex
       /\ (pc = "ready" /\ pc' # "mount") =>
             /\ maxZIndex' >= maxZIndex
             /\ lastEvent' = "addNote" => maxZIndex' = maxZIndex + 1
             /\ lastEvent' \in {"bringToFront", "dragStart"} =>
                   maxZIndex' = IF notes' = notes THEN maxZIndex ELSE maxZIndex + 1
             /\ lastEvent' \in {"deleteNote", "clearAll", "clearAllDeclined",
                                 "updateNoteContent", "updateNoteColor",
                                 "pointerMove", "pointerUp"} =>
                   maxZIndex' = maxZIndex]_vars

\* the only note of the collection was created after earlier notes had been
\* deleted or cleared, and its stackOrder is above the ones handed out before
C17_Witness ==
    /\ lastEvent = "addNote"
    /\ Len(notes) = 1
    /\ notes[1].zIndex = maxZIndex
    /\ maxZIndex > 3

\* C18: a pointer-move while Dragging keeps the number and order of the notes,
\* changes no field but x and y of the target note, changes no other note, and
\* leaves maxStackOrder and the drag session, anchors included, unchanged;
\* updateContent changes nothing but the content of the note it names and
\* updateColor nothing but the color of the note it names.
C18_MoveAndEditsChangeOnlyTheirFields ==
    [][/\ \A p \in Pointers :
             (lastEvent' = "pointerMove" /\ dragState.isDragging /\ PointerMove(p)) =>
                 /\ DOMAIN notes' = DOMAIN notes
                 /\ \A i \in DOMAIN notes :
                       /\ notes'[i] = [notes[i] EXCEPT !.x = notes'[i].x, !.y = notes'[i].y]
                       /\ notes[i].id # dragState.noteId => notes'[i] = notes[i]
                 /\ UNCHANGED <<maxZIndex, dragState>>
       /\ \A id \in NoteIds(notes), t \in Texts :
             (lastEvent' = "updateNoteContent" /\ UpdateNoteContent(id, t)) =>
                 /\ DOMAIN notes' = DOMAIN notes
                 /\ \A i \in DOMAIN notes :
                       /\ notes'[i] = [notes[i] EXCEPT !.content = notes'[i].content]
                       /\ notes[i].id # id => notes'[i] = notes[i]
                 /\ UNCHANGED <<maxZIndex, dragState>>
       /\ \A id \in NoteIds(notes), c \in ColorDraws :
             (lastEvent' = "updateNoteColor" /\ UpdateNoteColor(id, COLOR_KEYS[c])) =>
                 /\ DOMAIN notes' = DOMAIN notes
                 /\ \A i \in DOMAIN notes :
                       /\ notes'[i] = [notes[i] EXCEPT !.color = notes'[i].color]
                       /\ notes[i].id # id => notes'[i] = notes[i]
                 /\ UNCHANGED <<maxZIndex, dragState>>]_vars

\* the dragged note has moved next to a second note that stayed where it was
C18_Witness ==
    /\ lastEvent = "pointerMove"
    /\ dragState.isDragging
    /\ Len(notes) = 2
    /\ dragState.noteId = notes[1].id
    /\ notes[1].x # dragState.initialNoteX
    /\ notes[2].x # notes[1].x
    /\ notes[2].content # ""

====
